---- MODULE Spec2Model ----
(***************************************************************************)
(* Forward-proxy gateway (server.js, the version with the domain cache,   *)
(* src/unnamed/part_000 lines 247-606): the ProxyManager (pool, rotation   *)
(* cursor, domain -> proxy cache, refresh and flush timers), the plain     *)
(* HTTP requestHandler and the CONNECT handler serverOnConnect.            *)
(*                                                                         *)
(* One action is one run of a callback of the event loop, from the event   *)
(* that starts it to the next await / return.  Time is counted in ticks    *)
(* of 300000 ms; what happens within one tick happens in any order.        *)
(***************************************************************************)
EXTENDS Integers, Sequences, FiniteSets, TLC

\* ------------------------------------------------------------------ bounds
MaxTime == 2          \* the clock stops after this many ticks
MaxReq == 2           \* client requests (connections) in one behaviour
MaxRelay == 1         \* relayed chunks per direction of one tunnel

\* ------------------------------------------------------- program constants
\* Each is read from the environment, with a default.  The intervals are
\* the defaults (600000 ms = 2 ticks); the model runs with MAX_RETRIES=2 set.
PROXY_REFRESH_INTERVAL == 2
PROXY_DOMAIN_CACHE_TTL == 2
MAX_RETRIES == 2

\* ------------------------------------------------------------------ values
\* A proxy URL `${PROXY_TYPE}://host:port` is the pair <<host, port>>; the
\* JavaScript values null and undefined are one-element tuples.
Null == <<"null">>
Undefined == <<"undefined">>
IsProxy(p) == Len(p) = 2

Reqs == 1..MaxReq
Domains == {"a.test", "b.test"}

\* A proxy-list body is a string, written here as the sequence of its
\* pieces: the separators "\n" and ":", white space, and runs of other
\* characters.  BodyTwo is "1.2.3.4:8080:US\n5.6.7.8:3128:DE\n".
NL == "\n"
Colon == ":"
Whitespace == {" ", "\r"}
BodyTwo == <<"1.2.3.4", Colon, "8080", Colon, "US", NL,
             "5.6.7.8", Colon, "3128", Colon, "DE", NL>>
BodyOne == <<"1.2.3.4", Colon, "8080", Colon, "US", NL>>
BodyJunk == <<"garbage", NL>>
BodyEmpty == <<>>
\* "1.2.3.4:8080:US\ngarbage\n5.6.7.8:3128:DE\n \r\n9.9.9.9:80"
BodyThree == <<"1.2.3.4", Colon, "8080", Colon, "US", NL, "garbage", NL,
               "5.6.7.8", Colon, "3128", Colon, "DE", NL, " ", "\r", NL,
               "9.9.9.9", Colon, "80">>
\* "\nhost:\n:\n6.6.6.6:1:a:b\r\n"
BodyEdge == <<NL, "host", Colon, NL, Colon, NL,
              "6.6.6.6", Colon, "1", Colon, "a", Colon, "b", "\r", NL>>
Bodies == {BodyTwo, BodyOne, BodyJunk, BodyEmpty}

\* What `await axios.get(PROXY_LIST_URL)` can produce: an exception, or a
\* response with a status and a body.  `text` says that response.data is a
\* string; axios hands over a parsed object when the body is JSON, and
\* `response.data.split` then throws inside the try.
Outcomes(bodies) ==
  {[threw |-> TRUE, status |-> 0, data |-> BodyEmpty, text |-> TRUE]} \cup
  {[threw |-> FALSE, status |-> 200, data |-> b, text |-> TRUE] : b \in bodies} \cup
  {[threw |-> FALSE, status |-> 200, data |-> BodyTwo, text |-> FALSE]} \cup
  {[threw |-> FALSE, status |-> 500, data |-> BodyTwo, text |-> TRUE]}

\* No refresh has completed yet.  (by: the start number of the refresh that
\* completed last; installer: of the one that assigned the pool last.)
NoFetch == [threw |-> FALSE, status |-> 0, data |-> BodyEmpty, text |-> TRUE,
            by |-> -1, installer |-> -1]

FetchOutcomes == Outcomes(Bodies)
PoolOutcomes == Outcomes(Bodies \cup {BodyThree, BodyEdge})

\* req.url of a plain request, after `new URL(req.url)`.
NoUrl == [parses |-> FALSE, protocol |-> "", hostname |-> ""]

Urls ==
  {[parses |-> TRUE, protocol |-> "http:", hostname |-> d] : d \in Domains} \cup
  {[parses |-> TRUE, protocol |-> "https:", hostname |-> "a.test"],
   [parses |-> TRUE, protocol |-> "ftp:", hostname |-> "a.test"],
   NoUrl}

UpstreamStatuses == {200, 503}
\* axios is called without validateStatus: its default resolves the promise
\* on a 2xx status and rejects it on any other.
ValidateStatus(st) == st >= 200 /\ st < 300
\* error.message: of the TypeError of `new URL(proxyUrl)`, and of an axios
\* failure through a proxy, which names the proxy it could not use.
InvalidUrl == <<"Invalid URL">>
ErrorVia(p) == <<"request failed via", p>>
StatusError(st) == <<"Request failed with status code", st>>
NoError == <<>>

VARIABLES
  proxies,       \* ProxyManager.proxies
  index,         \* ProxyManager.index
  domainCache,   \* ProxyManager.domainCache: a Map, domain -> [proxy, timestamp]
  now,           \* Date.now(), in ticks
  refreshDue,    \* the setInterval of startAutoRefresh has expired
  flushDue,      \* the setInterval of flushDomainCache has expired
  fetches,       \* refreshProxies() runs awaiting axios.get, by start number
  started,       \* number of refreshProxies() runs started so far
  crashed,       \* an exception left a callback uncaught: the process is gone
  rotation,      \* what getNextProxy() returned lately (SpecPool only)
  fetched,       \* what the last completed refresh got from axios (SpecPool only)
  req            \* the client requests

vars == <<proxies, index, domainCache, now, refreshDue, flushDue, fetches,
          started, crashed, rotation, fetched, req>>

\* ------------------------------------------------------------ ProxyManager
\* String.prototype.split(sep): the pieces between the separators, of which
\* there is always one more than there are separators.
\* (done: the pieces already closed by a separator; piece: the open one.)
RECURSIVE SplitFrom(_, _, _, _)
SplitFrom(str, sep, done, piece) ==
  IF str = <<>> THEN Append(done, piece)
  ELSE IF Head(str) = sep
       THEN SplitFrom(Tail(str), sep, Append(done, piece), <<>>)
       ELSE SplitFrom(Tail(str), sep, done, Append(piece, Head(str)))

Split(str, sep) == SplitFrom(str, sep, <<>>, <<>>)

\* The string a sequence of pieces stands for.
RECURSIVE Join(_)
Join(str) == IF str = <<>> THEN "" ELSE Head(str) \o Join(Tail(str))

\* line.trim() === ''
IsBlank(line) == \A i \in DOMAIN line : line[i] \in Whitespace

\* `${PROXY_TYPE}://${parts[0]}:${parts[1]}`
EndpointLastField(parts) == <<Join(parts[1]), Join(parts[Len(parts)])>>

Endpoint(parts) == <<Join(parts[1]), Join(parts[2])>>

\* lines.map(...).filter(Boolean)
RECURSIVE MapLines(_)
MapLines(lines) ==
  IF lines = <<>> THEN <<>>
  ELSE LET parts == Split(Head(lines), Colon)
           rest == MapLines(Tail(lines))
       IN IF Len(parts) >= 2 THEN <<Endpoint(parts)>> \o rest ELSE rest

NotBlank(line) == ~IsBlank(line)

\* The list refreshProxies builds from response.data.
ParseLines(data) == MapLines(SelectSeq(Split(data, NL), NotBlank))

\* The assignment refreshProxies makes to this.proxies, or none.
RefreshAssigns(resp) ==
  ~resp.threw /\ resp.status = 200 /\ resp.data # BodyEmpty /\ resp.text

RefreshedOrCleared(resp, old) ==
  IF RefreshAssigns(resp) THEN ParseLines(resp.data) ELSE <<>>

RefreshedProxies(resp, old) ==
  IF RefreshAssigns(resp) THEN ParseLines(resp.data) ELSE old

GetNextProxyValue(ps, idx) ==
  IF Len(ps) = 0 THEN Null
  ELSE IF idx < Len(ps) THEN ps[idx + 1]
  ELSE Undefined

GetNextProxyIndex(ps, idx) ==
  IF Len(ps) = 0 THEN idx ELSE (idx + 1) % Len(ps)

\* What the last calls of getNextProxy() returned since the pool was last
\* assigned, at most Len(ps) of them (kept by the action GetNextProxy).
Remember(rot, ps, v) ==
  LET all == Append(rot, v)
  IN IF Len(ps) = 0 THEN <<>>
     ELSE IF Len(all) > Len(ps) THEN Tail(all) ELSE all

\* getNextProxy() called by any handler: the method alone.
GetNextProxy ==
  /\ ~crashed
  /\ index' = GetNextProxyIndex(proxies, index)
  /\ rotation' = Remember(rotation, proxies, GetNextProxyValue(proxies, index))
  /\ UNCHANGED <<proxies, domainCache, now, refreshDue, flushDue, fetches,
                 started, crashed, fetched, req>>

CacheHitAtTTL(cache, d, t) ==
  d \in DOMAIN cache /\ t - cache[d].timestamp <= PROXY_DOMAIN_CACHE_TTL

CacheHit(cache, d, t) ==
  d \in DOMAIN cache /\ t - cache[d].timestamp < PROXY_DOMAIN_CACHE_TTL

GetProxyForDomainValue(cache, d, t) ==
  IF CacheHit(cache, d, t) THEN cache[d].proxy ELSE Null

Without(cache, d) == [x \in (DOMAIN cache) \ {d} |-> cache[x]]

GetProxyForDomainCache(cache, d, t) ==
  IF CacheHit(cache, d, t) THEN cache ELSE Without(cache, d)

SetDomainAlone(cache, d, p, t) ==
  [x \in {d} |-> [proxy |-> p, timestamp |-> t]]

SetDomainForDomain(cache, d, p, t) ==
  [x \in (DOMAIN cache) \cup {d} |->
     IF x = d THEN [proxy |-> p, timestamp |-> t] ELSE cache[x]]

RemoveDomainMapping(cache, d) == Without(cache, d)

EmptyCache == [x \in {} |-> [proxy |-> Null, timestamp |-> 0]]

\* ---------------------------------------------------------------- requests
\* One client request (plain) or client connection (CONNECT).  The fields
\* nsel, ndial, nresp, lookup, startEmpty, perr, cliWrites, sentC, sentU,
\* leaked and ops record what happened; the code keeps no such record.
\*   url         req.url of a plain request
\*   target      req.url of a CONNECT request, a string written as its pieces
\*   upTarget    the target named in the request line and in the Host header
\*               of the CONNECT request written to the current proxy
\*   got         the status of the upstream response the last attempt obtained,
\*               0 if it obtained none
\*   lookup      what getProxyForDomain found on attempt 0: "hit", "absent"
\*               or "expired"
\*   startEmpty  attempt 0 found no cached proxy and an empty pool
\*   nsel        calls of getNextProxy();  ndial  requests / dials started
\*   perr        a proxySocket of this connection emitted 'error'
\*   leaked      a proxySocket was dialled with the previous one not destroyed
\*   ops         what the 'data' listener did on a 200 reply, in order
\*   cs   clientSocket: "open", "ended" (end() was called), "destroyed"
\*   ps   the proxySocket of the current attempt: "connecting", "connected"
\*        (the CONNECT request is written, no data has come), "piped",
\*        "ended", "destroyed"
\*   cliIn / upIn   what the client / the current upstream proxy has received
IdleReq ==
  [kind |-> "none", pc |-> "idle", url |-> NoUrl, domain |-> "", attempt |-> 0,
   proxyUrl |-> Null, lastError |-> NoError, status |-> 0, body |-> "",
   details |-> NoError, nresp |-> 0, nsel |-> 0, ndial |-> 0,
   lookup |-> "none", startEmpty |-> FALSE, perr |-> FALSE,
   cs |-> "none", ps |-> "none", head |-> FALSE, cliWrites |-> <<>>,
   cliIn |-> <<>>, upIn |-> <<>>, pipes |-> {}, sentC |-> 0, sentU |-> 0,
   target |-> <<>>, upTarget |-> "", got |-> 0,
   leaked |-> FALSE, ops |-> <<>>]

\* Candidate selection of both handlers:
\*   attempt === 0 ? (getProxyForDomain(domain) || getNextProxy()) : getNextProxy()
SelectCandidateAlwaysCache(attempt, d, idx, cache) ==
  LET cached == GetProxyForDomainValue(cache, d, now)
      cache1 == GetProxyForDomainCache(cache, d, now)
      next == GetNextProxyValue(proxies, idx)
  IN IF cached # Null
     THEN [value |-> cached, index |-> idx, cache |-> cache1,
           lookup |-> "hit", called |-> 0]
     ELSE [value |-> next, index |-> GetNextProxyIndex(proxies, idx),
           cache |-> cache1,
           lookup |-> IF d \in DOMAIN cache THEN "expired" ELSE "absent",
           called |-> 1]

SelectCandidate(attempt, d, idx, cache) ==
  LET cached == IF attempt = 0 THEN GetProxyForDomainValue(cache, d, now) ELSE Null
      cache1 == IF attempt = 0 THEN GetProxyForDomainCache(cache, d, now) ELSE cache
      next == GetNextProxyValue(proxies, idx)
  IN IF attempt = 0 /\ cached # Null
     THEN [value |-> cached, index |-> idx, cache |-> cache1,
           lookup |-> "hit", called |-> 0]
     ELSE [value |-> next, index |-> GetNextProxyIndex(proxies, idx),
           cache |-> cache1,
           lookup |-> IF d \in DOMAIN cache THEN "expired" ELSE "absent",
           called |-> 1]

\* The catch block of requestHandler: the cache after
\*   if (attempt === 0 && getProxyForDomain(domain) === proxyUrl) removeDomainMapping(domain)
CatchCache(cache, attempt, d, proxyUrl) ==
  IF attempt # 0 THEN cache
  ELSE LET v == GetProxyForDomainValue(cache, d, now)
           c == GetProxyForDomainCache(cache, d, now)
       IN IF v = proxyUrl THEN RemoveDomainMapping(c, d) ELSE c

BadGateway(q) ==
  [q EXCEPT !.pc = "done", !.status = 502, !.body = "Bad Gateway",
            !.details = IF q.lastError # NoError THEN q.lastError
                        ELSE <<"Unknown error">>,
            !.nresp = q.nresp + 1]

\* The while loop of requestHandler from its head to the next await (pc
\* "await": axios is in flight) or to the response after the loop.
\* getTunnelAgent throws on a proxyUrl that is no URL, inside the try.
\* while (attempt < MAX_RETRIES)
LoopContinuesOnceMore(attempt) == attempt <= MAX_RETRIES

LoopContinues(attempt) == attempt < MAX_RETRIES

RECURSIVE RetryLoop(_, _, _)
RetryLoop(q, idx, cache) ==
  IF ~LoopContinues(q.attempt)
  THEN [q |-> BadGateway(q), index |-> idx, cache |-> cache]
  ELSE LET s == SelectCandidate(q.attempt, q.domain, idx, cache)
           q1 == [q EXCEPT !.proxyUrl = s.value,
                           !.nsel = q.nsel + s.called,
                           !.lookup = IF q.attempt = 0 THEN s.lookup ELSE q.lookup,
                           !.startEmpty = IF q.attempt = 0
                                          THEN s.lookup # "hit" /\ Len(proxies) = 0
                                          ELSE q.startEmpty]
       IN IF IsProxy(s.value)
          THEN [q |-> [q1 EXCEPT !.pc = "await", !.ndial = q1.ndial + 1],
                index |-> s.index, cache |-> s.cache]
          ELSE RetryLoop([q1 EXCEPT !.lastError = InvalidUrl, !.got = 0,
                                    !.attempt = q1.attempt + 1],
                         s.index,
                         CatchCache(s.cache, q1.attempt, q1.domain, s.value))

UrlParses(url) == url.parses

UrlAccepted(url) == url.parses /\ url.protocol \in {"http:", "https:"}

BadRequest(q) ==
  [q EXCEPT !.kind = "plain", !.pc = "done", !.status = 400,
            !.body = "Invalid or missing URL in request line",
            !.nresp = q.nresp + 1]

\* A slot is free for the next connection when it was never used or when the
\* request it held is over: answered, or both of its sockets closed.
Over(q) ==
  \/ q.kind = "plain" /\ q.pc = "done"
  \/ q.kind = "connect" /\ q.cs # "open" /\ q.ps \in {"ended", "destroyed"}

Free(r) ==
  /\ req[r].kind = "none" \/ Over(req[r])
  /\ \A o \in Reqs : o < r => req[o].kind # "none"

\* requestHandler, from the request to its first await or its response.
PlainRequest(r, url) ==
  /\ ~crashed
  /\ Free(r)
  /\ IF ~UrlAccepted(url)
     THEN /\ req' = [req EXCEPT ![r] = BadRequest([IdleReq EXCEPT !.url = url])]
          /\ UNCHANGED <<index, domainCache>>
     ELSE LET out == RetryLoop([IdleReq EXCEPT !.kind = "plain", !.url = url,
                                              !.domain = url.hostname],
                               index, domainCache)
          IN /\ req' = [req EXCEPT ![r] = out.q]
             /\ index' = out.index
             /\ domainCache' = out.cache
  /\ UNCHANGED <<proxies, now, refreshDue, flushDue, fetches, started, crashed,
                 rotation, fetched>>

\* The catch block of requestHandler on the rejection `err` of axios (which
\* obtained the status st, or no response: 0), then the loop again.
PlainCatch(r, err, st) ==
  LET q == req[r]
      out == RetryLoop([q EXCEPT !.lastError = err, !.got = st,
                                 !.attempt = q.attempt + 1],
                       index,
                       CatchCache(domainCache, q.attempt, q.domain, q.proxyUrl))
  IN /\ req' = [req EXCEPT ![r] = out.q]
     /\ index' = out.index
     /\ domainCache' = out.cache

\* The upstream answers with status st: `await axios(axiosOptions)` resolves
\* if the status is valid, and rejects with an error that names it if not.
PlainResponse(r, st) ==
  /\ ~crashed
  /\ req[r].kind = "plain" /\ req[r].pc = "await"
  /\ IF ValidateStatus(st)
     THEN /\ domainCache' = SetDomainForDomain(domainCache, req[r].domain,
                                               req[r].proxyUrl, now)
          /\ req' = [req EXCEPT ![r].pc = "done", ![r].status = st, ![r].got = st,
                                ![r].body = "upstream",
                                ![r].nresp = req[r].nresp + 1]
          /\ UNCHANGED index
     ELSE PlainCatch(r, StatusError(st), st)
  /\ UNCHANGED <<proxies, now, refreshDue, flushDue, fetches, started,
                 crashed, rotation, fetched>>

\* No response comes (connection failure, timeout): axios rejects.
PlainFailure(r) ==
  /\ ~crashed
  /\ req[r].kind = "plain" /\ req[r].pc = "await"
  /\ PlainCatch(r, ErrorVia(req[r].proxyUrl), 0)
  /\ UNCHANGED <<proxies, now, refreshDue, flushDue, fetches, started, crashed,
                 rotation, fetched>>

\* ----------------------------------------------------------------- CONNECT
\* clientSocket.write(line): the client receives it if the socket is open.
ClientWrite(q, line) ==
  [q EXCEPT !.cliWrites = Append(q.cliWrites, line),
            !.cliIn = IF q.cs = "open" THEN Append(q.cliIn, line) ELSE q.cliIn]

ClientEnd(q) == [q EXCEPT !.cs = IF q.cs = "open" THEN "ended" ELSE q.cs]

ClientDestroy(q) == [q EXCEPT !.cs = "destroyed"]

ProxyDestroy(q) == [q EXCEPT !.ps = "destroyed"]

\* The branch `attempt >= MAX_RETRIES` of attemptConnect.
Rejected(q) == [ClientEnd(ClientWrite(q, "502")) EXCEPT !.pc = "rejected"]

\* connectFunc(connectionOptions, ...): a new proxySocket for this attempt.
Dial(q) ==
  [q EXCEPT !.pc = "dial", !.ps = "connecting", !.upIn = <<>>, !.upTarget = "",
            !.sentC = 0, !.sentU = 0, !.pipes = {}, !.ops = <<>>,
            !.ndial = q.ndial + 1,
            !.leaked = q.leaked \/ q.ps \notin {"none", "destroyed"}]

\* if (attempt >= MAX_RETRIES)
ConnectExhausted(attempt) == attempt >= MAX_RETRIES

\* attemptConnect(q.attempt).  `new URL(proxyUrl)` is outside any try: on a
\* proxyUrl that is no URL the TypeError leaves the callback (threw).
AttemptConnect(q, idx, cache) ==
  IF ConnectExhausted(q.attempt)
  THEN [q |-> Rejected(q), index |-> idx, cache |-> cache, threw |-> FALSE]
  ELSE LET s == SelectCandidate(q.attempt, q.domain, idx, cache)
           q1 == [q EXCEPT !.proxyUrl = s.value,
                           !.nsel = q.nsel + s.called,
                           !.lookup = IF q.attempt = 0 THEN s.lookup ELSE q.lookup,
                           !.startEmpty = IF q.attempt = 0
                                          THEN s.lookup # "hit" /\ Len(proxies) = 0
                                          ELSE q.startEmpty]
       IN [q |-> IF IsProxy(s.value) THEN Dial(q1) ELSE q1,
           index |-> s.index, cache |-> s.cache, threw |-> ~IsProxy(s.value)]

\* req.url of a CONNECT request: "host:port", or what the client made of it.
DefaultTarget(d) == <<d, Colon, "443">>

Targets ==
  {DefaultTarget(d) : d \in Domains} \cup
  {<<"a.test", Colon, "8443">>, <<"a.test">>, <<"a.test", Colon>>,
   <<"a.test", Colon, "https">>}

\* The strings Number() turns into a number other than 0 and NaN.
Numerals == {"443", "8443"}

\* const [targetHost, targetPortRaw] = req.url.split(':')
TargetHost(url) == Join(Split(url, Colon)[1])

\* const targetPort = Number(targetPortRaw) || 443
TargetPort(url) ==
  LET parts == Split(url, Colon)
  IN IF Len(parts) >= 2 /\ Join(parts[2]) \in Numerals
     THEN Join(parts[2]) ELSE "443"

\* `CONNECT ${req.url} HTTP/1.1` and `Host: ${req.url}`
UpstreamTarget(url) == Join(url)

\* serverOnConnect: the 'connect' event of the server.
ConnectRequest(r, url, hd) ==
  /\ ~crashed
  /\ Free(r)
  /\ LET out == AttemptConnect([IdleReq EXCEPT !.kind = "connect",
                                              !.target = url,
                                              !.domain = TargetHost(url),
                                              !.cs = "open", !.head = hd],
                               index, domainCache)
     IN /\ req' = [req EXCEPT ![r] = out.q]
        /\ index' = out.index
        /\ domainCache' = out.cache
        /\ crashed' = out.threw
  /\ UNCHANGED <<proxies, now, refreshDue, flushDue, fetches, started, rotation, fetched>>

\* The connect callback of the proxySocket: the CONNECT request is written.
ProxyConnected(r) ==
  /\ ~crashed
  /\ req[r].kind = "connect" /\ req[r].ps = "connecting"
  /\ req' = [req EXCEPT ![r].ps = "connected", ![r].upIn = <<"CONNECT">>,
                        ![r].upTarget = UpstreamTarget(req[r].target)]
  /\ UNCHANGED <<proxies, index, domainCache, now, refreshDue, flushDue, fetches,
                 started, crashed, rotation, fetched>>

\* The branch `response.indexOf('200') !== -1` of the 'data' listener.
EstablishedNoHead(q) ==
  LET a == [ClientWrite(q, "200") EXCEPT !.ops = <<"status">>]
      c == [a EXCEPT !.pipes = {"c2p", "p2c"}, !.ps = "piped",
                     !.ops = Append(a.ops, "pipe")]
  IN [c EXCEPT !.pc = "established", !.ops = Append(c.ops, "cache")]

Established(q) ==
  LET a == [ClientWrite(q, "200") EXCEPT !.ops = <<"status">>]
      b == IF a.head
           THEN [a EXCEPT !.upIn = Append(a.upIn, "head"),
                          !.ops = Append(a.ops, "head")]
           ELSE a
      c == [b EXCEPT !.pipes = {"c2p", "p2c"}, !.ps = "piped",
                     !.ops = Append(b.ops, "pipe")]
  IN [c EXCEPT !.pc = "established", !.ops = Append(c.ops, "cache")]

\* proxySocket.once('data'): the first chunk of the proxy's reply.
ProxyData(r, has200) ==
  /\ ~crashed
  /\ req[r].kind = "connect" /\ req[r].ps = "connected"
  /\ IF has200
     THEN /\ req' = [req EXCEPT ![r] = Established(req[r])]
          /\ domainCache' = SetDomainForDomain(domainCache, req[r].domain,
                                               req[r].proxyUrl, now)
          /\ UNCHANGED <<index, crashed>>
     ELSE LET q == req[r]
              out == AttemptConnect([ProxyDestroy(q) EXCEPT !.attempt = q.attempt + 1],
                                    index, domainCache)
          IN /\ req' = [req EXCEPT ![r] = out.q]
             /\ index' = out.index
             /\ domainCache' = out.cache
             /\ crashed' = out.threw
  /\ UNCHANGED <<proxies, now, refreshDue, flushDue, fetches, started, rotation, fetched>>

\* An 'error' event of the proxySocket: the listener of attemptConnect, then,
\* if the tunnel was established on this socket, the listener attached there.
ProxyError(r) ==
  /\ ~crashed
  /\ req[r].kind = "connect" /\ req[r].ps \in {"connecting", "connected", "piped"}
  /\ LET q == req[r]
         out == AttemptConnect([ProxyDestroy(q) EXCEPT !.attempt = q.attempt + 1,
                                                       !.perr = TRUE],
                               index, domainCache)
     IN /\ req' = [req EXCEPT ![r] = IF q.ps = "piped" /\ ~out.threw
                                     THEN ClientDestroy(out.q) ELSE out.q]
        /\ index' = out.index
        /\ domainCache' = out.cache
        /\ crashed' = out.threw
  /\ UNCHANGED <<proxies, now, refreshDue, flushDue, fetches, started, rotation, fetched>>

\* An 'error' event of the clientSocket: the listener of serverOnConnect,
\* then, if a tunnel is established, the listener attached there.
ClientError(r) ==
  /\ ~crashed
  /\ req[r].kind = "connect" /\ req[r].cs = "open"
  /\ req' = [req EXCEPT ![r] = IF req[r].ps = "piped"
                               THEN ProxyDestroy(ClientDestroy(req[r]))
                               ELSE ClientDestroy(req[r])]
  /\ UNCHANGED <<proxies, index, domainCache, now, refreshDue, flushDue, fetches,
                 started, crashed, rotation, fetched>>

\* A chunk from the client while the tunnel is up: clientSocket.pipe(proxySocket).
ClientData(r) ==
  /\ ~crashed
  /\ req[r].kind = "connect" /\ req[r].ps = "piped" /\ req[r].cs = "open"
  /\ req[r].sentC < MaxRelay
  /\ req' = [req EXCEPT ![r].sentC = req[r].sentC + 1,
                        ![r].upIn = IF "c2p" \in req[r].pipes
                                    THEN Append(req[r].upIn, "c") ELSE req[r].upIn]
  /\ UNCHANGED <<proxies, index, domainCache, now, refreshDue, flushDue, fetches,
                 started, crashed, rotation, fetched>>

\* A chunk from the proxy while the tunnel is up: proxySocket.pipe(clientSocket).
UpstreamData(r) ==
  /\ ~crashed
  /\ req[r].kind = "connect" /\ req[r].ps = "piped" /\ req[r].cs = "open"
  /\ req[r].sentU < MaxRelay
  /\ req' = [req EXCEPT ![r].sentU = req[r].sentU + 1,
                        ![r].cliIn = IF "p2c" \in req[r].pipes
                                     THEN Append(req[r].cliIn, "u") ELSE req[r].cliIn]
  /\ UNCHANGED <<proxies, index, domainCache, now, refreshDue, flushDue, fetches,
                 started, crashed, rotation, fetched>>

\* The client closes its side of an established tunnel: the pipe ends the
\* proxySocket.
ClientClose(r) ==
  /\ ~crashed
  /\ req[r].kind = "connect" /\ req[r].ps = "piped" /\ req[r].cs = "open"
  /\ req' = [req EXCEPT ![r].cs = "ended", ![r].ps = "ended"]
  /\ UNCHANGED <<proxies, index, domainCache, now, refreshDue, flushDue, fetches,
                 started, crashed, rotation, fetched>>

\* The proxy closes the connection without an error.  With the tunnel up the
\* pipe ends the clientSocket; before that no listener hears of it.
ProxyClose(r) ==
  /\ ~crashed
  /\ req[r].kind = "connect" /\ req[r].ps \in {"connected", "piped"}
  /\ req' = [req EXCEPT ![r] = IF req[r].ps = "piped"
                               THEN [ClientEnd(req[r]) EXCEPT !.ps = "ended"]
                               ELSE [req[r] EXCEPT !.ps = "ended"]]
  /\ UNCHANGED <<proxies, index, domainCache, now, refreshDue, flushDue, fetches,
                 started, crashed, rotation, fetched>>

\* ------------------------------------------------------------------ timers
\* refreshProxies() up to `await axios.get`.
StartRefresh ==
  /\ fetches' = fetches \cup {started}
  /\ started' = started + 1

\* The interval callback of startAutoRefresh.
RefreshTimer ==
  /\ ~crashed
  /\ refreshDue
  /\ refreshDue' = FALSE
  /\ StartRefresh
  /\ UNCHANGED <<proxies, index, domainCache, now, flushDue, crashed, rotation, fetched, req>>

\* refreshProxies() after `await axios.get`.  What it got is recorded in
\* `fetched` by RefreshObserved, and left alone where nobody looks at it.
RefreshComplete(f, resp) ==
  /\ ~crashed
  /\ f \in fetches
  /\ fetches' = fetches \ {f}
  /\ proxies' = RefreshedProxies(resp, proxies)
  /\ rotation' = IF RefreshAssigns(resp) THEN <<>> ELSE rotation
  /\ UNCHANGED <<index, domainCache, now, refreshDue, flushDue, started, crashed, req>>

RefreshObserved(f, resp) ==
  /\ RefreshComplete(f, resp)
  /\ fetched' = [threw |-> resp.threw, status |-> resp.status,
                 data |-> resp.data, text |-> resp.text, by |-> f,
                 installer |-> IF RefreshAssigns(resp) THEN f
                               ELSE fetched.installer]

RefreshUnobserved(f, resp) == RefreshComplete(f, resp) /\ UNCHANGED fetched

\* flushDomainCache(), the second interval callback of the constructor.
FlushTimer ==
  /\ ~crashed
  /\ flushDue
  /\ flushDue' = FALSE
  /\ domainCache' = EmptyCache
  /\ UNCHANGED <<proxies, index, now, refreshDue, fetches, started, crashed,
                 rotation, fetched, req>>

\* The clock; an expired interval runs before the clock moves on.
Tick ==
  /\ ~crashed
  /\ now < MaxTime
  /\ ~refreshDue /\ ~flushDue
  /\ now' = now + 1
  /\ refreshDue' = ((now + 1) % PROXY_REFRESH_INTERVAL = 0)
  /\ flushDue' = ((now + 1) % PROXY_REFRESH_INTERVAL = 0)
  /\ UNCHANGED <<proxies, index, domainCache, fetches, started, crashed, rotation, fetched, req>>

\* ----------------------------------------------------------- specification
\* `new ProxyManager()`: empty pool, cursor 0, empty cache, the first
\* refreshProxies() awaiting its response, both intervals armed.
Init ==
  /\ proxies = <<>>
  /\ index = 0
  /\ domainCache = EmptyCache
  /\ now = 0
  /\ refreshDue = FALSE
  /\ flushDue = FALSE
  /\ fetches = {0}
  /\ started = 1
  /\ crashed = FALSE
  /\ rotation = <<>>
  /\ fetched = NoFetch
  /\ req = [r \in Reqs |-> IdleReq]

\* The server with one connection at a time.  A CONNECT to a.test comes with
\* head bytes, a CONNECT to b.test comes without.
Next ==
  \/ \E url \in Urls : PlainRequest(1, url)
  \/ \E st \in UpstreamStatuses : PlainResponse(1, st)
  \/ PlainFailure(1)
  \/ \E d \in Domains : ConnectRequest(1, DefaultTarget(d), d = "a.test")
  \/ ProxyConnected(1)
  \/ \E has200 \in BOOLEAN : ProxyData(1, has200)
  \/ ProxyError(1)
  \/ ClientError(1)
  \/ ClientData(1)
  \/ UpstreamData(1)
  \/ ClientClose(1)
  \/ ProxyClose(1)
  \/ RefreshTimer
  \/ \E f \in fetches, resp \in FetchOutcomes : RefreshUnobserved(f, resp)
  \/ FlushTimer
  \/ Tick

Spec == Init /\ [][Next]_vars

\* The ProxyManager alone: its timers, its refreshes, and getNextProxy()
\* called at any moment.
NextPool ==
  \/ GetNextProxy
  \/ RefreshTimer
  \/ \E f \in fetches, resp \in PoolOutcomes : RefreshObserved(f, resp)
  \/ FlushTimer
  \/ Tick

SpecPool == Init /\ [][NextPool]_vars

\* The server with MaxReq plain requests in flight together, within one tick.
NextConcurrent ==
  \/ \E r \in Reqs, url \in Urls : PlainRequest(r, url)
  \/ \E r \in Reqs, st \in UpstreamStatuses : PlainResponse(r, st)
  \/ \E r \in Reqs : PlainFailure(r)
  \/ \E f \in fetches, resp \in FetchOutcomes : RefreshUnobserved(f, resp)

SpecConcurrent == Init /\ [][NextConcurrent]_vars

\* The server with a plain request and a CONNECT request in flight together,
\* up to the tunnel or the rejection, within one tick.
HttpUrls == {url \in Urls : url.protocol = "http:"}

NextMixed ==
  \/ \E url \in HttpUrls : PlainRequest(1, url)
  \/ \E st \in UpstreamStatuses : PlainResponse(1, st)
  \/ PlainFailure(1)
  \/ \E d \in Domains : ConnectRequest(2, DefaultTarget(d), FALSE)
  \/ ProxyConnected(2)
  \/ \E has200 \in BOOLEAN : ProxyData(2, has200)
  \/ ProxyError(2)
  \/ \E f \in fetches, resp \in FetchOutcomes : RefreshUnobserved(f, resp)

SpecMixed == Init /\ [][NextMixed]_vars

\* One CONNECT request at a time, with any target, up to the tunnel or the
\* rejection, within one tick.
NextTarget ==
  \/ \E url \in Targets, hd \in BOOLEAN : ConnectRequest(1, url, hd)
  \/ ProxyConnected(1)
  \/ \E has200 \in BOOLEAN : ProxyData(1, has200)
  \/ ProxyError(1)
  \/ ClientError(1)
  \/ \E f \in fetches, resp \in FetchOutcomes : RefreshUnobserved(f, resp)

SpecTarget == Init /\ [][NextTarget]_vars

\* ==================================================================== claims
Range(f) == {f[i] : i \in DOMAIN f}

InFlight(q) == q.kind # "none" /\ ~Over(q)

\* A plain request that passed validation.
Forwarded(q) == q.kind = "plain" /\ q.status # 400

\* --------------------------------------------------------------------- C1
\* C1: a plain request with a valid URL that finds the pool empty and no
\* cached proxy for its domain is answered 500 "No proxies available" at the
\* first selection: one call of getNextProxy(), no retry, no 502.
C1_EmptyPoolIs500 ==
  \A r \in Reqs :
    (Forwarded(req[r]) /\ req[r].startEmpty /\ req[r].pc = "done")
      => /\ req[r].status = 500
         /\ req[r].body = "No proxies available"
         /\ req[r].nsel = 1

\* --------------------------------------------------------------------- C2
\* C2: a CONNECT request that finds the pool empty and no cached proxy for
\* its host gets the 502 status line, its socket is closed, and no exception
\* leaves the handler (the process and its timers live on).
C2_EmptyPoolConnectIs502 ==
  \A r \in Reqs :
    (req[r].kind = "connect" /\ req[r].startEmpty)
      => /\ ~crashed
         /\ req[r].cliIn = <<"502">>
         /\ req[r].cs = "ended"

\* --------------------------------------------------------------------- C3
\* C3: whatever refreshes completed before it, getNextProxy() called with a
\* non-empty pool returns an element of the pool (never null / undefined).
C3_SelectionInPool ==
  Len(proxies) > 0 => \A i \in DOMAIN rotation : rotation[i] \in Range(proxies)

\* --------------------------------------------------------------------- C4
\* C4: between two assignments of the pool (n > 0 proxies), any n
\* consecutive calls of getNextProxy() return the n proxies once each, in
\* list order (a cyclic shift of the list).
IsShift(rot, ps) ==
  \E k \in 0..(Len(ps) - 1) :
    \A i \in 1..Len(ps) : rot[i] = ps[((k + i - 1) % Len(ps)) + 1]

C4_RoundRobin ==
  (Len(proxies) > 0 /\ Len(rotation) = Len(proxies)) => IsShift(rotation, proxies)

\* --------------------------------------------------------------------- C5
\* A request takes its first step: the handler runs candidate selection for
\* attempt 0, which looks the request's domain up in the cache.
Starts(r) ==
  /\ req[r].kind = "none" \/ Over(req[r])
  /\ req'[r] # req[r]
  /\ req'[r].lookup # "none"

\* The proxy of the entry of d in the cache if it is younger than the TTL.
Unexpired(cache, d, t) ==
  d \in DOMAIN cache /\ t - cache[d].timestamp < PROXY_DOMAIN_CACHE_TTL

\* C5: the lookup of a domain returns the cached proxy only if an entry
\* exists and now - recordedAt < TTL (and then it is that entry's proxy); an
\* entry recorded at T is reported absent by every lookup at a time >= T + TTL,
\* and that lookup removes the expired entry from the cache.
C5_LookupHonoursTTL ==
  [][\A r \in Reqs : Starts(r) =>
       LET d == req'[r].domain
       IN /\ req'[r].lookup = "hit" =>
               /\ Unexpired(domainCache, d, now)
               /\ req'[r].proxyUrl = domainCache[d].proxy
               /\ req'[r].nsel = 0
          /\ (d \in DOMAIN domainCache /\ ~Unexpired(domainCache, d, now)) =>
               /\ req'[r].lookup = "expired"
               /\ req'[r].nsel >= 1
               /\ d \notin DOMAIN domainCache'
          /\ GetProxyForDomainValue(domainCache, d, now) # Null =>
               Unexpired(domainCache, d, now)]_vars

\* A request found an entry for its domain that was TTL old or older, took a
\* proxy from the rotation instead, and the entry is gone.
C5_Witness ==
  \E r \in Reqs :
    /\ req[r].lookup = "expired"
    /\ req[r].pc \in {"await", "dial"}
    /\ req[r].attempt = 0
    /\ req[r].domain \notin DOMAIN domainCache
    /\ now >= PROXY_DOMAIN_CACHE_TTL

\* --------------------------------------------------------------------- C6
\* In this step the request in slot r gets its upstream response (plain) or
\* its tunnel (CONNECT): a success for its domain d.
SucceedsFor(r, d) ==
  /\ req[r].domain = d
  /\ \/ req[r].kind = "plain" /\ req[r].pc = "await" /\ req'[r].body = "upstream"
     \/ req[r].kind = "connect" /\ req[r].ps = "connected" /\ req'[r].ps = "piped"

\* In this step attempt 0 of a request for d fails.
FailsFirstAttempt(r, d) ==
  /\ req'[r].domain = d
  /\ req'[r].attempt >= 1
  /\ Starts(r) \/ (InFlight(req[r]) /\ req[r].attempt = 0)

\* The periodic flush of the cache runs in this step.
Flushes == flushDue /\ ~flushDue'

\* A plain success for d through P at time T records [P, T]; the entry of d,
\* while younger than the TTL, is left as it is by every step that satisfies
\* none of the exceptions; and a request for d that starts while the entry
\* is younger than the TTL is handed the entry's proxy.
AffinityPersists(exceptFlush) ==
  \A d \in Domains :
    /\ \A r \in Reqs :
         (SucceedsFor(r, d) /\ req[r].kind = "plain") =>
            /\ d \in DOMAIN domainCache'
            /\ domainCache'[d] = [proxy |-> req[r].proxyUrl, timestamp |-> now]
    /\ ( /\ Unexpired(domainCache, d, now)
         /\ \A r \in Reqs : ~SucceedsFor(r, d) /\ ~FailsFirstAttempt(r, d)
         /\ ~(exceptFlush /\ Flushes) ) =>
            /\ d \in DOMAIN domainCache'
            /\ domainCache'[d] = domainCache[d]
    /\ \A r \in Reqs :
         (Starts(r) /\ req'[r].domain = d /\ Unexpired(domainCache, d, now)) =>
            /\ req'[r].lookup = "hit"
            /\ req'[r].proxyUrl = domainCache[d].proxy

\* C6 (as stated): after a forwarded request to D succeeds through P at time
\* T, the next lookup for D before T + TTL returns P, provided no later
\* success and no attempt-0 failure for D came between.
C6_AffinityPersists == [][AffinityPersists(FALSE)]_vars

\* C6 (amended): the same, provided also that the periodic flush of the
\* cache did not run between the success and the lookup.
C6_AffinityPersistsUnlessFlushed == [][AffinityPersists(TRUE)]_vars

\* A plain request found, one tick after it was recorded, the proxy through
\* which an earlier request to its domain succeeded.
C6_Witness ==
  \E r \in Reqs :
    /\ req[r].kind = "plain" /\ req[r].pc = "await" /\ req[r].lookup = "hit"
    /\ req[r].domain \in DOMAIN domainCache
    /\ domainCache[req[r].domain].proxy = req[r].proxyUrl
    /\ now = domainCache[req[r].domain].timestamp + 1
    /\ Cardinality(DOMAIN domainCache) = 2

\* --------------------------------------------------------------------- C7
\* C7: in the plain path and in the CONNECT path, when the proxy of attempt 0
\* came from the domain's cache entry and attempt 0 fails, the entry is gone
\* when attempt 1 begins (there is none, or one that names another proxy).
C7_FailedAffinityRemoved ==
  [][\A r \in Reqs :
       ( /\ InFlight(req[r]) /\ req[r].attempt = 0 /\ req[r].lookup = "hit"
         /\ req'[r].attempt >= 1 ) =>
            ~( /\ req[r].domain \in DOMAIN domainCache'
               /\ domainCache'[req[r].domain].proxy = req[r].proxyUrl )]_vars

\* --------------------------------------------------------------------- C8
\* The message of the error of the last attempt: of `new URL` on a candidate
\* that is no URL, of the response with a status axios rejects, or of the
\* request that failed through the proxy.
LastMessage(q) ==
  IF ~IsProxy(q.proxyUrl) THEN InvalidUrl
  ELSE IF q.got # 0 THEN StatusError(q.got) ELSE ErrorVia(q.proxyUrl)

\* C8: a request, plain or CONNECT, tries at most MAX_RETRIES upstream proxies
\* (dispatches or dials, over the whole life of the connection); a plain
\* request gets at most one response, and when all MAX_RETRIES attempts
\* failed it is 502 "Bad Gateway" with the message of the last error.
C8_RetryBudget ==
  \A r \in Reqs :
    /\ req[r].ndial <= MAX_RETRIES
    /\ req[r].nsel <= MAX_RETRIES
    /\ req[r].kind = "plain" =>
         /\ req[r].nresp = IF req[r].pc = "done" THEN 1 ELSE 0
         /\ (req[r].pc = "done" /\ req[r].attempt = MAX_RETRIES) =>
              /\ req[r].status = 502
              /\ req[r].body = "Bad Gateway"
              /\ req[r].details = LastMessage(req[r])
         /\ req[r].status = 502 => req[r].attempt = MAX_RETRIES

\* A plain request dispatched through MAX_RETRIES proxies, all failed, and
\* was answered 502.
C8_Witness ==
  \E r \in Reqs :
    /\ req[r].kind = "plain" /\ req[r].pc = "done" /\ req[r].status = 502
    /\ req[r].ndial = MAX_RETRIES
    /\ req[r].nresp = 1

\* --------------------------------------------------------------------- C9
Chunks(c, n) == [i \in 1..n |-> c]

HeadBytes(q) == IF q.head THEN <<"head">> ELSE <<>>

\* What an established tunnel looks like: the handler wrote the status line,
\* then the head, then set up both pipes; the upstream proxy has received the
\* CONNECT request, the head, and every chunk the client sent since; the
\* client has received the 200 status line and every later upstream chunk.
TunnelUp(q) ==
  /\ q.ops = <<"status">> \o HeadBytes(q) \o <<"pipe", "cache">>
  /\ q.pipes = {"c2p", "p2c"}
  /\ q.upIn = <<"CONNECT">> \o HeadBytes(q) \o Chunks("c", q.sentC)
  /\ q.cliWrites # <<>> /\ q.cliWrites[Len(q.cliWrites)] = "200"
  /\ q.cs = "open" => q.cliIn = <<"200">> \o Chunks("u", q.sentU)

\* C9: when the first reply chunk of the selected proxy contains '200' the
\* handler writes the 200 status line to the client, then forwards the head
\* to the upstream socket, then wires the relay, and records the proxy as the
\* host's cache entry; from then on, until either side closes, what the
\* client writes reaches the upstream socket and the reverse.
C9_TunnelEstablished ==
  [][\A r \in Reqs :
       /\ (req'[r].kind = "connect" /\ req'[r].ps = "piped") => TunnelUp(req'[r])
       /\ ( /\ req[r].kind = "connect" /\ req[r].ps = "connected"
            /\ req'[r].ps = "piped" ) =>
              /\ req[r].domain \in DOMAIN domainCache'
              /\ domainCache'[req[r].domain] =
                   [proxy |-> req[r].proxyUrl, timestamp |-> now]
              /\ req'[r].proxyUrl = req[r].proxyUrl
              /\ req'[r].ndial = req[r].ndial]_vars

\* A tunnel with a head is up and has relayed a chunk each way.
C9_Witness ==
  \E r \in Reqs :
    /\ req[r].kind = "connect" /\ req[r].ps = "piped" /\ req[r].cs = "open"
    /\ req[r].head
    /\ req[r].sentC = MaxRelay /\ req[r].sentU = MaxRelay
    /\ req[r].upIn = <<"CONNECT", "head", "c">>
    /\ req[r].cliIn = <<"200", "u">>

\* -------------------------------------------------------------------- C10
\* C10: a CONNECT request whose every candidate proxy answered with a first
\* chunk without '200' (no socket error on either side) has, after
\* MAX_RETRIES attempts, sent its client the 502 status line and nothing
\* else and closed the socket; each proxy socket was destroyed before the
\* next dial; and the cache holds no proxy for the request's domain.
C10_AllRefused ==
  \A r \in Reqs :
    ( /\ req[r].kind = "connect" /\ req[r].pc = "rejected"
      /\ ~req[r].perr /\ req[r].cs # "destroyed" ) =>
        /\ req[r].attempt = MAX_RETRIES
        /\ req[r].ndial = MAX_RETRIES
        /\ req[r].cliWrites = <<"502">>
        /\ req[r].cliIn = <<"502">>
        /\ req[r].cs = "ended"
        /\ ~req[r].leaked /\ req[r].ps = "destroyed"
        /\ GetProxyForDomainValue(domainCache, req[r].domain, now) = Null

\* -------------------------------------------------------------------- C11
\* A refresh completes in this step.
Completes == fetches' # fetches /\ fetches' \subseteq fetches

\* The fetch failed: an exception, a status other than 200, an empty body or
\* a body that is no text.
FetchFailed(resp) ==
  resp.threw \/ resp.status # 200 \/ resp.data = BodyEmpty \/ ~resp.text

\* C11: a refresh whose fetch succeeds replaces the pool in the one step in
\* which it completes; a refresh whose fetch fails (exception, status other
\* than 200, empty or non-text body) leaves the pool and the cursor exactly
\* as they were; and either way nothing is raised: the process lives on and
\* no request is touched.
C11_RefreshAtomicOrUntouched ==
  [][Completes =>
       /\ proxies' = IF FetchFailed(fetched') THEN proxies
                     ELSE ParseLines(fetched'.data)
       /\ FetchFailed(fetched') => index' = index
       /\ crashed' = crashed /\ ~crashed'
       /\ req' = req]_vars

\* A refresh failed on a body that is no text, and the pool of two proxies
\* and the cursor, advanced by one call, are as they were.
C11_Witness ==
  /\ ~fetched.text
  /\ Len(proxies) = 2
  /\ index = 1
  /\ Cardinality(fetches) < started

\* -------------------------------------------------------------------- C12
\* The positions of the separator in a string, and the k-th of them.
Cuts(str, sep) == {i \in 1..Len(str) : str[i] = sep}

Cut(str, sep, k) ==
  CHOOSE i \in Cuts(str, sep) : Cardinality({j \in Cuts(str, sep) : j < i}) = k - 1

\* The k-th field of a string: what stands between separator k-1 and
\* separator k (the ends of the string counting as separators).
Field(str, sep, k) ==
  LET n == Cardinality(Cuts(str, sep))
      from == IF k = 1 THEN 1 ELSE Cut(str, sep, k - 1) + 1
      to == IF k = n + 1 THEN Len(str) ELSE Cut(str, sep, k) - 1
  IN SubSeq(str, from, to)

Fields(str, sep) ==
  [k \in 1..(Cardinality(Cuts(str, sep)) + 1) |-> Field(str, sep, k)]

\* A line that gives an endpoint: not blank, with two fields or more.
Usable(line) ==
  /\ \E i \in DOMAIN line : line[i] \notin Whitespace
  /\ Cuts(line, Colon) # {}

\* One endpoint per usable line, in line order, of its first two fields.
Endpoints(data) ==
  LET usable == SelectSeq(Fields(data, NL), Usable)
  IN [k \in DOMAIN usable |->
        <<Join(Field(usable[k], Colon, 1)), Join(Field(usable[k], Colon, 2))>>]

\* C12: after a successful refresh the pool holds exactly one endpoint for
\* each non-blank line of the body with at least two colon-delimited fields,
\* made of the first two fields only, in line order, and nothing for any
\* other line; the body "1.2.3.4:8080:US\n5.6.7.8:3128:DE\n" gives the two
\* endpoints 1.2.3.4:8080 and 5.6.7.8:3128.
C12_ParsedEndpoints ==
  ~FetchFailed(fetched) =>
     /\ proxies = Endpoints(fetched.data)
     /\ fetched.data = BodyTwo =>
          proxies = << <<"1.2.3.4", "8080">>, <<"5.6.7.8", "3128">> >>

\* The body with a junk line, a blank line and no final newline was parsed
\* into its three endpoints.
C12_Witness ==
  /\ ~FetchFailed(fetched)
  /\ fetched.data = BodyThree
  /\ proxies = << <<"1.2.3.4", "8080">>, <<"5.6.7.8", "3128">>, <<"9.9.9.9", "80">> >>

\* -------------------------------------------------------------------- C13
\* A request arrives in slot r in this step.
Arrives(r) ==
  /\ req[r].kind = "none" \/ Over(req[r])
  /\ req'[r].kind # "none"
  /\ req'[r] # req[r]

\* C13: a plain request whose URL does not parse, or whose scheme is neither
\* http nor https, is answered 400 with a plain-text body and no attempt: no
\* proxy is selected or tried, and the cursor and the cache stay as they are.
C13_BadRequestNoAttempt ==
  [][\A r \in Reqs :
       ( /\ Arrives(r)
         /\ req'[r].kind = "plain"
         /\ ~req'[r].url.parses \/ req'[r].url.protocol \notin {"http:", "https:"} ) =>
            /\ req'[r].pc = "done" /\ req'[r].nresp = 1
            /\ req'[r].status = 400
            /\ req'[r].body = "Invalid or missing URL in request line"
            /\ req'[r].nsel = 0 /\ req'[r].ndial = 0 /\ req'[r].attempt = 0
            /\ req'[r].lookup = "none"
            /\ index' = index
            /\ domainCache' = domainCache]_vars

\* An ftp: request was answered 400 while the cursor had moved and the cache
\* held an entry for its host, both still there.
C13_Witness ==
  \E r \in Reqs :
    /\ req[r].kind = "plain" /\ req[r].status = 400
    /\ req[r].url.protocol = "ftp:"
    /\ req[r].url.hostname \in DOMAIN domainCache
    /\ index = 1

\* -------------------------------------------------------------------- C14
\* Attempt 0 of the plain request in slot r fails in this step.
PlainFirstFailure(r) ==
  /\ req[r].kind = "plain" /\ req[r].pc = "await" /\ req[r].attempt = 0
  /\ req'[r].attempt >= 1

\* C14: the failure path of a plain request removes a domain's entry only if
\* the request took its attempt-0 candidate from the cache and the cache
\* still maps the domain to that proxy; a request whose attempt-0 candidate
\* came from the rotation deletes no entry another request recorded,
\* whatever the interleaving.
C14_OnlyOwnEntryRemoved ==
  [][\A r \in Reqs : PlainFirstFailure(r) =>
       \A d \in DOMAIN domainCache :
         (Unexpired(domainCache, d, now) /\ d \notin DOMAIN domainCache') =>
            /\ req[r].lookup = "hit"
            /\ d = req[r].domain
            /\ domainCache[d].proxy = req[r].proxyUrl]_vars

\* -------------------------------------------------------------------- C15
\* A proxy is being tried for the request: axios or the dial is under way.
Trying(q) == q.pc \in {"await", "dial"}

\* C15: with more than one proxy in the pool, the candidate of attempt
\* k >= 1 of a request differs from the candidate of attempt k-1, which has
\* just failed; in particular attempt 1 does not reuse the cached proxy that
\* failed on attempt 0.
C15_RetryOnAnotherProxy ==
  [][\A r \in Reqs :
       ( /\ InFlight(req[r]) /\ Trying(req[r])
         /\ req'[r].attempt = req[r].attempt + 1 /\ Trying(req'[r])
         /\ Len(proxies) > 1 ) =>
            req'[r].proxyUrl # req[r].proxyUrl]_vars

\* -------------------------------------------------------------------- C16
\* The candidate of the request in slot r is the next of the rotation: the
\* proxy under the cursor, and the cursor moves on by one.
TakesRotation(r) ==
  /\ index < Len(proxies)
  /\ req'[r].proxyUrl = proxies[index + 1]
  /\ index' = (index + 1) % Len(proxies)

\* C16: in both paths the candidate of attempt 0 is the domain's unexpired
\* cache entry when there is one, and then the cursor does not move;
\* otherwise it is the next of the rotation.  The candidate of every attempt
\* >= 1 is the next of the rotation, whatever the cache holds for the domain
\* by then.
C16_CandidateSelection ==
  [][\A r \in Reqs :
       /\ (Arrives(r) /\ Trying(req'[r]) /\ req'[r].attempt = 0) =>
            IF Unexpired(domainCache, req'[r].domain, now)
            THEN /\ req'[r].proxyUrl = domainCache[req'[r].domain].proxy
                 /\ index' = index
                 /\ req'[r].nsel = 0
            ELSE /\ TakesRotation(r)
                 /\ req'[r].nsel = 1
       /\ ( /\ InFlight(req[r]) /\ req'[r].attempt = req[r].attempt + 1
            /\ Trying(req'[r]) ) =>
              /\ TakesRotation(r)
              /\ req'[r].nsel = req[r].nsel + 1]_vars

\* A plain request and a CONNECT request are both on attempt 1 or later, with
\* a proxy from the rotation, while the cache holds an unexpired entry for
\* the domain of each.
C16_Witness ==
  /\ \A r \in Reqs :
       /\ Trying(req[r]) /\ req[r].attempt >= 1 /\ req[r].nsel >= 1
       /\ Unexpired(domainCache, req[r].domain, now)
  /\ \E r \in Reqs : req[r].kind = "plain"
  /\ \E r \in Reqs : req[r].kind = "connect"

\* -------------------------------------------------------------------- C17
\* The 200 status line was written to the client of this connection.
Committed(q) == q.kind = "connect" /\ "200" \in Range(q.cliWrites)

\* C17: once the 200 status line was written to the client, no step of the
\* connection selects or dials another proxy, and none writes a second
\* status line (200 or 502) to the client socket.
C17_NoRetryAfterEstablished ==
  [][\A r \in Reqs :
       (Committed(req[r]) /\ ~Over(req[r])) =>
          /\ req'[r].ndial = req[r].ndial
          /\ req'[r].nsel = req[r].nsel
          /\ req'[r].cliWrites = req[r].cliWrites]_vars

\* -------------------------------------------------------------------- C18
\* The upstream proxy of the current attempt closes the connection in this
\* step, having sent nothing, and without an 'error' event.
ClosesSilently(r) ==
  /\ req[r].kind = "connect" /\ req[r].ps = "connected"
  /\ req'[r].ps = "ended"

\* C18: an upstream proxy that accepts the connection and closes it without
\* data and without an error leads to a retry or to the rejection (the next
\* attempt is made, or the 502 is written), so that the client connection
\* does not wait for ever.
C18_SilentCloseRetries ==
  [][\A r \in Reqs :
       ClosesSilently(r) =>
          /\ req'[r].attempt = req[r].attempt + 1
          /\ req'[r].pc \in {"dial", "rejected"}]_vars

\* -------------------------------------------------------------------- C19
\* C19: the CONNECT request written to the upstream proxy names, in its
\* request line and in its Host header, host:port with the port parsed from
\* the client's target, or 443 when the target has no port or one that is
\* no number ("a.test" goes upstream as "a.test:443").
C19_UpstreamTargetHasPort ==
  \A r \in Reqs :
    (req[r].kind = "connect" /\ req[r].ps \in {"connected", "piped"}) =>
       /\ req[r].upTarget = TargetHost(req[r].target) \o ":" \o TargetPort(req[r].target)
       /\ req[r].target = <<"a.test">> => req[r].upTarget = "a.test:443"

\* -------------------------------------------------------------------- C20
\* An attempt of the plain request in slot r obtains a response in this step.
ObtainsResponse(r) ==
  /\ req[r].kind = "plain" /\ req[r].pc = "await"
  /\ req'[r] # req[r]
  /\ req'[r].got # 0

\* C20: when an attempt of a plain request obtains a response from
\* upstream, whatever its status (4xx and 5xx too), the handler records the
\* candidate as the domain's cache entry, answers the client with that
\* status and makes no further attempt.
C20_AnyResponseIsSuccess ==
  [][\A r \in Reqs : ObtainsResponse(r) =>
       /\ req'[r].pc = "done" /\ req'[r].nresp = 1
       /\ req'[r].status = req'[r].got
       /\ req'[r].attempt = req[r].attempt
       /\ req'[r].ndial = req[r].ndial
       /\ req[r].domain \in DOMAIN domainCache'
       /\ domainCache'[req[r].domain] =
            [proxy |-> req[r].proxyUrl, timestamp |-> now]]_vars

\* -------------------------------------------------------------------- C21
\* A socket of the relaying tunnel in slot r has an 'error' event in this
\* step: the client socket is destroyed by its listener, or the listeners of
\* the proxy socket run (the attempt number moves on, or the process dies).
ErrorWhileRelaying(r) ==
  /\ req[r].kind = "connect" /\ req[r].ps = "piped" /\ req[r].cs = "open"
  /\ \/ req'[r].cs = "destroyed"
     \/ req'[r].attempt # req[r].attempt
     \/ crashed'

\* C21: an error on the client socket or on the proxy socket of a relaying
\* tunnel leaves the client socket and that proxy socket both destroyed (the
\* proxy socket of the tunnel is destroyed, whatever socket is dialled after
\* it), so that no socket of the tunnel stays open.
C21_RelayErrorDestroysBoth ==
  [][\A r \in Reqs :
       ErrorWhileRelaying(r) =>
          /\ req'[r].cs = "destroyed"
          /\ \/ req'[r].ps = "destroyed"
             \/ req'[r].ndial = req[r].ndial + 1 /\ ~req'[r].leaked]_vars

\* -------------------------------------------------------------------- C22
\* C22: when runs of refreshProxies() overlap, the pool holds the list of
\* the most recently started successful one: the response of a run started
\* earlier, arriving later, never replaces the list installed by a run
\* started after it.
C22_LaterStartedRefreshWins ==
  [][(Completes /\ fetched'.by < fetched.installer) => proxies' = proxies]_vars

\* -------------------------------------------------------------------- C23
\* The client socket of the connection in slot r was destroyed on an error
\* before any 200 was written, and the connection is not over.
ClientGone(q) ==
  /\ q.kind = "connect" /\ q.cs = "destroyed"
  /\ ~Committed(q) /\ q.pc # "rejected"
  /\ ~Over(q)

\* C23: when the client socket errors and is destroyed before the tunnel is
\* established, the proxy socket being dialled or awaited is destroyed with
\* it; after that no proxy is selected or dialled for the connection,
\* nothing is written to the client socket, and no cache entry is recorded
\* for the target host.
C23_ClientErrorStopsConnect ==
  [][\A r \in Reqs :
       /\ ( /\ req[r].kind = "connect" /\ req[r].cs = "open"
            /\ req[r].ps \in {"connecting", "connected"}
            /\ req'[r].cs = "destroyed" /\ req'[r].attempt = req[r].attempt ) =>
              req'[r].ps = "destroyed"
       /\ ClientGone(req[r]) =>
              /\ req'[r].ndial = req[r].ndial
              /\ req'[r].nsel = req[r].nsel
              /\ req'[r].cliWrites = req[r].cliWrites
              /\ req'[r].ps # "piped"
              /\ domainCache' = domainCache \/ Flushes]_vars

====
